---- MODULE Spec2Model ----
(***************************************************************************)
(* CM256: Cauchy-matrix MDS erasure code over GF(256).                     *)
(*                                                                         *)
(* The model follows src/cm256.cpp: cm256_encode, cm256_decode and the     *)
(* Decoder (Initialize, DecodeM1, Decode).  Arrays of the C++ code are     *)
(* functions over 0..n-1, so indices are the source's indices.  A block    *)
(* buffer is a sequence of BlockBytes bytes.                                *)
(***************************************************************************)
EXTENDS Integers, Sequences, FiniteSets, TLC

(***************************************************************************)
(* Bounds of the model and the caller's sample data.                       *)
(***************************************************************************)
MaxOriginalCount == 3
MaxRecoveryCount == 2

\* Largest value of the parameters' type (int).
IntMax == 2147483647

\* Size of the field: k + m may not exceed it; size of the Decoder's arrays.
FieldSize == 256

\* Byte values the caller's original blocks are filled with.
DataBytes == {1, 167}

\* Values of params.BlockBytes the caller passes.
BlockBytesInputs == {0 - 1, 0, 1, 2}

\* Values of params.OriginalCount and params.RecoveryCount the caller passes.
OriginalCountInputs == {0 - 1, 0} \cup (1..MaxOriginalCount) \cup {FieldSize, IntMax}
RecoveryCountInputs == {0 - 1, 0} \cup (1..MaxRecoveryCount) \cup {FieldSize, IntMax}

\* The caller's sample contents of one block of bb bytes.
DataBlocks(bb) == { [i \in 1..bb |-> IF i = 1 THEN b ELSE 255 - b] : b \in DataBytes }

\* Content of memory nothing has written yet: the caller's output region
\* before the call, the Decoder's arrays before Initialize.
Indeterminate == 0 - 1

(***************************************************************************)
(* GF(256) arithmetic (the gf256 library, used as a collaborator).         *)
(***************************************************************************)
\* Generator polynomial x^8 + x^6 + x^3 + x^2 + 1 (0x14D).
GF256Poly == 333

RECURSIVE XorBits(_, _, _)
XorBits(a, b, n) ==
    IF n = 0 THEN 0
    ELSE ((((a % 2) + (b % 2)) % 2) + 2 * XorBits(a \div 2, b \div 2, n - 1))

XorNibble == [a \in 0..15 |-> [b \in 0..15 |-> XorBits(a, b, 4)]]

\* Bitwise exclusive or of two values below 512.
Xor(a, b) ==
    256 * XorBits(a \div 256, b \div 256, 1)
    + 16 * XorNibble[(a \div 16) % 16][(b \div 16) % 16]
    + XorNibble[a % 16][b % 16]

\* Multiplication by x, reduced by the generator polynomial.
XTimes(a) == IF 2 * a >= 256 THEN Xor(2 * a, GF256Poly) ELSE 2 * a

\* Shift-and-add product of two field elements.
RECURSIVE PolyMul(_, _)
PolyMul(a, b) ==
    IF b = 0 THEN 0
    ELSE Xor(IF b % 2 = 1 THEN a ELSE 0, PolyMul(XTimes(a), b \div 2))

\* The powers 2^0 .. 2^(2^n - 1) of the generator 2, by doubling.
RECURSIVE BuildExp(_)
BuildExp(n) ==
    IF n = 0 THEN <<1>>
    ELSE LET half == BuildExp(n - 1)
             step == XTimes(half[Len(half)])
         IN  half \o [i \in 1..Len(half) |-> PolyMul(half[i], step)]

\* GF256ExpTable[i + 1] = 2^i in the field, i in 0..255.
GF256ExpTable == BuildExp(8)

GF256LogTable == [v \in 1..255 |-> CHOOSE i \in 0..254 : GF256ExpTable[i + 1] = v]

gf256_add(a, b) == Xor(a, b)

gf256_mul(a, b) ==
    IF a = 0 \/ b = 0 THEN 0
    ELSE GF256ExpTable[((GF256LogTable[a] + GF256LogTable[b]) % 255) + 1]

\* The inverse of zero is modelled as zero; no call of a valid decode asks
\* for it.
gf256_inv(a) ==
    IF a = 0 THEN 0
    ELSE GF256ExpTable[((255 - GF256LogTable[a]) % 255) + 1]

gf256_div(a, b) == gf256_mul(a, gf256_inv(b))

\* Bulk operations on buffers of equal length; each returns the new contents
\* of its destination.
gf256_add_mem(x, y) == [i \in DOMAIN x |-> Xor(x[i], y[i])]

gf256_add2_mem(z, x, y) == [i \in DOMAIN z |-> Xor(z[i], Xor(x[i], y[i]))]

gf256_addset_mem(x, y) == [i \in DOMAIN x |-> Xor(x[i], y[i])]

gf256_mul_mem(x, c) == [i \in DOMAIN x |-> gf256_mul(x[i], c)]

gf256_muladd_mem(z, c, x) == [i \in DOMAIN z |-> Xor(z[i], gf256_mul(c, x[i]))]

(***************************************************************************)
(* Matrix element.                                                         *)
(***************************************************************************)
\* Conversion to uint8_t.
U8(v) == v % 256

\* GetMatrixElement without the division by the first row: 1 / (x_i + y_j).
GetMatrixElementPlainCauchy(x_i, x_0, y_j) ==
    gf256_div(1, gf256_add(x_i, y_j))

GetMatrixElement(x_i, x_0, y_j) ==
    gf256_div(gf256_add(y_j, x_0), gf256_add(x_i, y_j))

(***************************************************************************)
(* Parameter validation shared by cm256_encode and cm256_decode.           *)
(***************************************************************************)
NonPositive(params) ==
    \/ params.OriginalCount <= 0
    \/ params.RecoveryCount <= 0
    \/ params.BlockBytes <= 0

\* The int addition OriginalCount + RecoveryCount overflows.
SumOverflows(params) ==
    /\ params.OriginalCount > 0
    /\ params.RecoveryCount > 0
    /\ params.OriginalCount > IntMax - params.RecoveryCount

\* The values the test  OriginalCount + RecoveryCount > 256  can take.  Both
\* operands are positive here.  Signed overflow is undefined: a build that
\* wraps gets a negative sum (FALSE), a build that widens gets TRUE.
SumExceedsField(params) ==
    IF SumOverflows(params) THEN BOOLEAN
    ELSE {params.OriginalCount + params.RecoveryCount > FieldSize}

(***************************************************************************)
(* cm256_encode.                                                           *)
(***************************************************************************)
\* First recovery row for k >= 2: parity of originals[0..j].
RECURSIVE FirstRow(_, _)
FirstRow(originals, j) ==
    IF j = 1 THEN gf256_addset_mem(originals[0], originals[1])
    ELSE gf256_add_mem(FirstRow(originals, j - 1), originals[j])

\* Recovery row with point x_i after columns 0..j have been accumulated.
RECURSIVE CauchyRow(_, _, _, _)
CauchyRow(originals, x_i, x_0, j) ==
    IF j = 0 THEN gf256_mul_mem(originals[0], GetMatrixElement(x_i, x_0, 0))
    ELSE gf256_muladd_mem(CauchyRow(originals, x_i, x_0, j - 1),
                          GetMatrixElement(x_i, x_0, U8(j)), originals[j])

\* The output region after a call that passed validation: block i of the
\* region is recoveryBlocks + i * BlockBytes.
EncodeOutput(params, originals) ==
    LET k == params.OriginalCount
        m == params.RecoveryCount
        x_0 == U8(k)
    IN  IF k = 1
        THEN [i \in 0..(m - 1) |-> originals[0]]
        ELSE [i \in 0..(m - 1) |->
                IF i = 0 THEN FirstRow(originals, k - 1)
                ELSE CauchyRow(originals, U8(x_0 + i), x_0, k - 1)]

\* The call runs with counts the caller's arrays cannot have.
Fault == "fault"

(***************************************************************************)
(* Decoder::Initialize.                                                    *)
(***************************************************************************)
\* The Decoder object of cm256_decode, a local variable without initializer.
\* Original and Recovery hold positions in the caller's block array.  The
\* arrays hold the entries written so far; every other entry of the 256 is
\* indeterminate.  scanEnd is one past the last entry of ErasuresIndices the
\* "Identify erasures" loop has read.
NewDecoder(params) ==
    [Params |-> params,
     Recovery |-> <<>>, RecoveryCount |-> 0,
     Original |-> <<>>, OriginalCount |-> 0,
     ErasuresIndices |-> <<>>,
     scanEnd |-> 0]

\* PartitionBlocks with the test  row < OriginalCount - 1.
RECURSIVE PartitionBlocksOffByOne(_, _, _)
PartitionBlocksOffByOne(st, blks, ii) ==
    IF ii >= st.Params.OriginalCount THEN st
    ELSE LET row == blks[ii].Index
         IN  IF row < st.Params.OriginalCount - 1
             THEN PartitionBlocksOffByOne(
                    [st EXCEPT !.Original = @ @@ (st.OriginalCount :> ii),
                               !.OriginalCount = @ + 1,
                               !.ErasuresIndices = (row :> 1) @@ @],
                    blks, ii + 1)
             ELSE PartitionBlocksOffByOne(
                    [st EXCEPT !.Recovery = @ @@ (st.RecoveryCount :> ii),
                               !.RecoveryCount = @ + 1],
                    blks, ii + 1)

\* "For each input block" loop, from block ii on.
RECURSIVE PartitionBlocks(_, _, _)
PartitionBlocks(st, blks, ii) ==
    IF ii >= st.Params.OriginalCount THEN st
    ELSE LET row == blks[ii].Index
         IN  IF row < st.Params.OriginalCount
             THEN PartitionBlocks(
                    [st EXCEPT !.Original = @ @@ (st.OriginalCount :> ii),
                               !.OriginalCount = @ + 1,
                               !.ErasuresIndices = (row :> 1) @@ @],
                    blks, ii + 1)
             ELSE PartitionBlocks(
                    [st EXCEPT !.Recovery = @ @@ (st.RecoveryCount :> ii),
                               !.RecoveryCount = @ + 1],
                    blks, ii + 1)

SetMin(S) == CHOOSE x \in S : \A y \in S : x <= y

\* The positions from ii on where ErasuresIndices reads as zero.  An entry
\* nothing has written reads as zero at position zeroAt and as non-zero
\* elsewhere.
ZeroEntries(st, ii, zeroAt) ==
    {p \in DOMAIN st.ErasuresIndices : p >= ii /\ st.ErasuresIndices[p] = 0}
    \cup {p \in {zeroAt} : p >= ii /\ p < FieldSize /\ p \notin DOMAIN st.ErasuresIndices}

\* IdentifyErasures that reads on from the entry it has just stored over.
RECURSIVE IdentifyErasuresRescan(_, _, _, _)
IdentifyErasuresRescan(st, ii, indexCount, zeroAt) ==
    LET zeros == ZeroEntries(st, ii, zeroAt)
    IN  IF zeros = {}
        THEN [st EXCEPT !.scanEnd = FieldSize]
        ELSE LET p == SetMin(zeros)
                 put == [st EXCEPT !.scanEnd = p + 1,
                                   !.ErasuresIndices = (indexCount :> U8(p)) @@ @]
             IN  IF indexCount + 1 >= st.RecoveryCount
                 THEN put
                 ELSE IdentifyErasuresRescan(put, p, indexCount + 1, zeroAt)

\* "Identify erasures" loop, from entry ii on: the loop reads on to the next
\* zero entry, stores its position and stops once RecoveryCount are stored.
RECURSIVE IdentifyErasures(_, _, _, _)
IdentifyErasures(st, ii, indexCount, zeroAt) ==
    LET zeros == ZeroEntries(st, ii, zeroAt)
    IN  IF zeros = {}
        THEN [st EXCEPT !.scanEnd = FieldSize]
        ELSE LET p == SetMin(zeros)
                 put == [st EXCEPT !.scanEnd = p + 1,
                                   !.ErasuresIndices = (indexCount :> U8(p)) @@ @]
             IN  IF indexCount + 1 >= st.RecoveryCount
                 THEN put
                 ELSE IdentifyErasures(put, p + 1, indexCount + 1, zeroAt)

Initialize(params, blks, zeroAt) ==
    LET zeroed == [NewDecoder(params) EXCEPT
                     !.ErasuresIndices = [ii \in 0..(params.OriginalCount - 1) |-> 0]]
    IN  IdentifyErasures(PartitionBlocks(zeroed, blks, 0), 0, 0, zeroAt)

\* Where the first zero among the entries Initialize did not write may lie
\* (FieldSize: nowhere).
IndeterminateZeroAt(params) ==
    {params.OriginalCount, params.OriginalCount + 1, FieldSize}

(***************************************************************************)
(* Decoder::DecodeM1.                                                      *)
(***************************************************************************)
\* The loop over the originals from ii on; inBlock is <<>> for nullptr or
\* <<p>> for the buffer of block p.  Returns the contents of outBlock.
RECURSIVE XorOriginals(_, _, _, _, _)
XorOriginals(st, blks, ii, outBlock, inBlock) ==
    IF ii >= st.OriginalCount
    THEN IF inBlock # <<>>
         THEN gf256_add_mem(outBlock, blks[inBlock[1]].Block)
         ELSE outBlock
    ELSE LET p2 == st.Original[ii]
         IN  IF inBlock = <<>>
             THEN XorOriginals(st, blks, ii + 1, outBlock, <<p2>>)
             ELSE XorOriginals(st, blks, ii + 1,
                    gf256_add2_mem(outBlock, blks[inBlock[1]].Block, blks[p2].Block),
                    <<>>)

\* DecodeM1 without the assignment to Recovery[0]->Index.
DecodeM1NoLabel(st, blks) ==
    LET r == st.Recovery[0]
    IN  [blks EXCEPT ![r].Block = XorOriginals(st, blks, 0, blks[r].Block, <<>>)]

DecodeM1(st, blks) ==
    LET r == st.Recovery[0]
    IN  [blks EXCEPT ![r] = [Index |-> st.ErasuresIndices[0],
                             Block |-> XorOriginals(st, blks, 0, blks[r].Block, <<>>)]]

(***************************************************************************)
(* Decoder::Decode.                                                        *)
(***************************************************************************)
\* EliminateOriginal with source and destination exchanged.
RECURSIVE EliminateOriginalSwapped(_, _, _, _)
EliminateOriginalSwapped(st, blks, originalIndex, recoveryIndex) ==
    IF recoveryIndex >= st.RecoveryCount THEN blks
    ELSE LET o == st.Original[originalIndex]
             r == st.Recovery[recoveryIndex]
             x_0 == U8(st.Params.OriginalCount)
             matrixElement == GetMatrixElement(U8(blks[r].Index), x_0, U8(blks[o].Index))
         IN  EliminateOriginalSwapped(st,
                [blks EXCEPT ![o].Block =
                    gf256_muladd_mem(@, matrixElement, blks[r].Block)],
                originalIndex, recoveryIndex + 1)

\* Inner loop of "Eliminate original data": original originalIndex is
\* removed from recovery rows recoveryIndex and up.
RECURSIVE EliminateOriginal(_, _, _, _)
EliminateOriginal(st, blks, originalIndex, recoveryIndex) ==
    IF recoveryIndex >= st.RecoveryCount THEN blks
    ELSE LET o == st.Original[originalIndex]
             r == st.Recovery[recoveryIndex]
             x_0 == U8(st.Params.OriginalCount)
             matrixElement == GetMatrixElement(U8(blks[r].Index), x_0, U8(blks[o].Index))
         IN  EliminateOriginal(st,
                [blks EXCEPT ![r].Block =
                    gf256_muladd_mem(@, matrixElement, blks[o].Block)],
                originalIndex, recoveryIndex + 1)

RECURSIVE EliminateOriginals(_, _, _)
EliminateOriginals(st, blks, originalIndex) ==
    IF originalIndex >= st.OriginalCount THEN blks
    ELSE EliminateOriginals(st, EliminateOriginal(st, blks, originalIndex, 0),
                            originalIndex + 1)

\* FillMatrix with x_i taken from the first recovery block for every row.
FillMatrixFirstRow(st, blks) ==
    [i \in 0..(st.RecoveryCount - 1) |->
        [j \in 0..(st.RecoveryCount - 1) |->
            GetMatrixElement(U8(blks[st.Recovery[0]].Index),
                             U8(st.Params.OriginalCount),
                             st.ErasuresIndices[j])]]

\* "Fill matrix": entry [i][j] is the byte at matrix + i * RecoveryCount + j.
FillMatrix(st, blks) ==
    [i \in 0..(st.RecoveryCount - 1) |->
        [j \in 0..(st.RecoveryCount - 1) |->
            GetMatrixElement(U8(blks[st.Recovery[i]].Index),
                             U8(st.Params.OriginalCount),
                             st.ErasuresIndices[j])]]

InitPivots(st) == [j \in 0..(st.Params.OriginalCount - 1) |-> U8(j)]

\* The rows pivots[j..n-1] whose entry in column j is not zero, as positions
\* in pivots.
PivotCandidates(st, mat, piv, j) ==
    {remainingIndex \in j..(st.RecoveryCount - 1) : mat[piv[remainingIndex]][j] # 0}

\* x scaled by c in the columns after j.
ScaleTail(row, c, j) ==
    [t \in DOMAIN row |-> IF t > j THEN gf256_mul(row[t], c) ELSE row[t]]

\* z += c * x in the columns after j.
MulAddTail(z, c, x, j) ==
    [t \in DOMAIN z |-> IF t > j THEN Xor(z[t], gf256_mul(c, x[t])) ELSE z[t]]

\* "Remove it from all the other data", rows pivots[k..n-1].  g is the pair
\* of matrix and blocks.
RECURSIVE EliminateColumn(_, _, _, _, _, _)
EliminateColumn(st, g, piv, i, j, k) ==
    IF k >= st.RecoveryCount THEN g
    ELSE LET otheri == piv[k]
             otherMatrixElement == g.matrix[otheri][j]
             ri == st.Recovery[i]
             ro == st.Recovery[otheri]
         IN  EliminateColumn(st,
                [matrix |-> [g.matrix EXCEPT ![otheri] =
                                MulAddTail(@, otherMatrixElement, g.matrix[i], j)],
                 blocks |-> [g.blocks EXCEPT ![ro].Block =
                                gf256_muladd_mem(@, otherMatrixElement, g.blocks[ri].Block)]],
                piv, i, j, k + 1)

\* One iteration of the "Gaussian elimination" loop, for column j.
GaussColumn(st, mat, blks, piv, j) ==
    LET found == PivotCandidates(st, mat, piv, j)
    IN  IF found = {}
        THEN [matrix |-> mat, blocks |-> blks, pivots |-> piv]
        ELSE LET remainingIndex == SetMin(found)
                 i == piv[remainingIndex]
                 matrixElement == mat[i][j]
                 piv1 == [[piv EXCEPT ![remainingIndex] = piv[j]] EXCEPT ![j] = U8(i)]
                 ri == st.Recovery[i]
                 labelled == [blks EXCEPT ![ri].Index = st.ErasuresIndices[j]]
                 invMatrixElement == gf256_inv(matrixElement)
                 mat1 == IF matrixElement # 1
                         THEN [mat EXCEPT ![i] = ScaleTail(@, invMatrixElement, j)]
                         ELSE mat
                 blks1 == IF matrixElement # 1
                          THEN [labelled EXCEPT ![ri].Block =
                                    gf256_mul_mem(@, invMatrixElement)]
                          ELSE labelled
                 g == EliminateColumn(st, [matrix |-> mat1, blocks |-> blks1],
                                      piv1, i, j, j + 1)
             IN  [matrix |-> g.matrix, blocks |-> g.blocks, pivots |-> piv1]

\* SubstituteRow that stops one column early.
RECURSIVE SubstituteRowShort(_, _, _, _, _, _)
SubstituteRowShort(st, mat, blks, piv, j, k) ==
    IF k <= j + 1 THEN blks
    ELSE LET jIndex == piv[j]
             kIndex == piv[k]
             matrixElement == mat[jIndex][k]
         IN  SubstituteRowShort(st, mat,
                [blks EXCEPT ![st.Recovery[jIndex]].Block =
                    gf256_muladd_mem(@, matrixElement, blks[st.Recovery[kIndex]].Block)],
                piv, j, k - 1)

\* Inner loop of "Back-substitute" for row pivots[j], from column k down.
RECURSIVE SubstituteRow(_, _, _, _, _, _)
SubstituteRow(st, mat, blks, piv, j, k) ==
    IF k <= j THEN blks
    ELSE LET jIndex == piv[j]
             kIndex == piv[k]
             matrixElement == mat[jIndex][k]
         IN  SubstituteRow(st, mat,
                [blks EXCEPT ![st.Recovery[jIndex]].Block =
                    gf256_muladd_mem(@, matrixElement, blks[st.Recovery[kIndex]].Block)],
                piv, j, k - 1)

RECURSIVE BackSubstitute(_, _, _, _, _)
BackSubstitute(st, mat, blks, piv, j) ==
    IF j < 0 THEN blks
    ELSE BackSubstitute(st, mat,
            SubstituteRow(st, mat, blks, piv, j, st.RecoveryCount - 1),
            piv, j - 1)


(***************************************************************************)
(* State.                                                                  *)
(***************************************************************************)
VARIABLES
    pc,             \* position of the caller / of the running call
    params,         \* cm256_encoder_params
    originals,      \* the caller's originals array, <<>> for a null pointer
    recoveryBlocks, \* the caller's output region by block, <<>> for null
    encodeResult,   \* <<>> before cm256_encode returns, then <<value>>
    blocks,         \* the cm256_block array passed to cm256_decode
    blocksIn,       \* its contents when cm256_decode was called
    decodeResult,   \* <<>> before cm256_decode returns, then <<value>>
    state,          \* the Decoder of the running cm256_decode
    matrix,         \* Decoder::Decode: the coefficient matrix
    pivots,         \* Decoder::Decode: the pivot permutation
    column          \* Decoder::Decode: j of the Gaussian elimination loop

vars == <<pc, params, originals, recoveryBlocks, encodeResult, blocks, blocksIn,
          decodeResult, state, matrix, pivots, column>>

\* k, m and BlockBytes for which the caller holds real blocks.
Encodable(p) ==
    /\ p.OriginalCount \in 1..MaxOriginalCount
    /\ p.RecoveryCount \in 1..MaxRecoveryCount
    /\ p.BlockBytes > 0

\* Parameters outside the contract: some count not positive or k + m > 256.
OutOfContract(p) ==
    \/ NonPositive(p)
    \/ p.OriginalCount > FieldSize - p.RecoveryCount

\* A block array for calls with parameters out of contract.
PlaceholderBlocks == (0 :> [Index |-> 1, Block |-> <<1>>])

NoDecoder == [OriginalCount |-> 0, RecoveryCount |-> 0]

Init ==
    /\ pc = "start"
    /\ params \in [OriginalCount : OriginalCountInputs,
                   RecoveryCount : RecoveryCountInputs,
                   BlockBytes : BlockBytesInputs]
    /\ originals \in
         IF Encodable(params)
         THEN [0..(params.OriginalCount - 1) -> DataBlocks(params.BlockBytes)] \cup {<<>>}
         ELSE {(0 :> <<1>>), <<>>}
    /\ recoveryBlocks \in
         IF Encodable(params)
         THEN {[i \in 0..(params.RecoveryCount - 1) |->
                    [b \in 1..params.BlockBytes |-> Indeterminate]], <<>>}
         ELSE {(0 :> <<Indeterminate>>), <<>>}
    /\ encodeResult = <<>>
    /\ blocks = <<>>
    /\ blocksIn = <<>>
    /\ decodeResult = <<>>
    /\ state = NoDecoder
    /\ matrix = <<>>
    /\ pivots = <<>>
    /\ column = 0

(***************************************************************************)
(* Actions.                                                                *)
(***************************************************************************)
\* extern "C" int cm256_encode(params, originals, recoveryBlocks)
cm256_encode ==
    /\ pc = "start"
    /\ \E exceeds \in SumExceedsField(params) :
         IF NonPositive(params)
         THEN /\ encodeResult' = <<0 - 1>>
              /\ pc' = "encoded"
              /\ UNCHANGED recoveryBlocks
         ELSE IF exceeds
         THEN /\ encodeResult' = <<0 - 2>>
              /\ pc' = "encoded"
              /\ UNCHANGED recoveryBlocks
         ELSE IF originals = <<>> \/ recoveryBlocks = <<>>
         THEN /\ encodeResult' = <<0 - 3>>
              /\ pc' = "encoded"
              /\ UNCHANGED recoveryBlocks
         ELSE IF SumOverflows(params)
         THEN /\ pc' = Fault
              /\ UNCHANGED <<encodeResult, recoveryBlocks>>
         ELSE /\ recoveryBlocks' = EncodeOutput(params, originals)
              /\ encodeResult' = <<0>>
              /\ pc' = "encoded"
    /\ UNCHANGED <<params, originals, blocks, blocksIn, decodeResult, state,
                   matrix, pivots, column>>

\* The block arrays a receiver can hold: k blocks with distinct indices in
\* [0, k + m), in any array order.
Received(p) ==
    {idx \in [0..(p.OriginalCount - 1) -> 0..(p.OriginalCount + p.RecoveryCount - 1)] :
        \A a, b \in DOMAIN idx : a # b => idx[a] # idx[b]}

BlockOf(row) ==
    IF row < params.OriginalCount
    THEN originals[row]
    ELSE recoveryBlocks[row - params.OriginalCount]

\* The caller keeps k of the k + m blocks and labels them (after a successful
\* encode), or prepares a call it expects to be rejected.
Transmit ==
    /\ pc = "encoded"
    /\ \/ /\ encodeResult = <<0>>
          /\ \E idx \in Received(params) :
                blocks' = [p \in DOMAIN idx |-> [Index |-> idx[p], Block |-> BlockOf(idx[p])]]
       \/ /\ OutOfContract(params)
          /\ blocks' = PlaceholderBlocks
    /\ blocksIn' = blocks'
    /\ pc' = "received"
    /\ UNCHANGED <<params, originals, recoveryBlocks, encodeResult, decodeResult,
                   state, matrix, pivots, column>>

\* DecodeEntry with the single-block shortcut taken before validation.
DecodeEntryShortcutFirst(p, blks, exceeds) ==
    LET labelled == IF p.OriginalCount = 1
                    THEN [blks EXCEPT ![0].Index = 0]
                    ELSE blks
    IN  IF NonPositive(p) THEN [returned |-> <<0 - 1>>, blocks |-> labelled]
        ELSE IF exceeds THEN [returned |-> <<0 - 2>>, blocks |-> labelled]
        ELSE IF p.OriginalCount = 1 THEN [returned |-> <<0>>, blocks |-> labelled]
        ELSE [returned |-> <<>>, blocks |-> blks]

\* cm256_decode before the Decoder is set up: the value returned (<<>> when
\* the call goes on) and the block array.
DecodeEntry(p, blks, exceeds) ==
    IF NonPositive(p) THEN [returned |-> <<0 - 1>>, blocks |-> blks]
    ELSE IF exceeds THEN [returned |-> <<0 - 2>>, blocks |-> blks]
    ELSE IF p.OriginalCount = 1
    THEN [returned |-> <<0>>, blocks |-> [blks EXCEPT ![0].Index = 0]]
    ELSE [returned |-> <<>>, blocks |-> blks]

\* extern "C" int cm256_decode(params, blocks), up to the call of DecodeM1 or
\* Decode.
cm256_decode ==
    /\ pc = "received"
    /\ \E exceeds \in SumExceedsField(params) :
         LET entry == DecodeEntry(params, blocks, exceeds)
         IN  IF entry.returned # <<>>
             THEN /\ decodeResult' = entry.returned
                  /\ blocks' = entry.blocks
                  /\ pc' = "done"
                  /\ UNCHANGED state
             ELSE IF SumOverflows(params)
             THEN /\ pc' = Fault
                  /\ UNCHANGED <<decodeResult, blocks, state>>
             ELSE \E zeroAt \in IndeterminateZeroAt(params) :
                  LET st == Initialize(params, entry.blocks, zeroAt)
                  IN  /\ state' = st
                      /\ blocks' = entry.blocks
                      /\ IF st.RecoveryCount <= 0
                         THEN decodeResult' = <<0>> /\ pc' = "done"
                         ELSE /\ UNCHANGED decodeResult
                              /\ pc' = IF params.RecoveryCount = 1
                                       THEN "DecodeM1" ELSE "Decode"
    /\ UNCHANGED <<params, originals, recoveryBlocks, encodeResult, blocksIn,
                   matrix, pivots, column>>

\* state.DecodeM1(); return 0;
RunDecodeM1 ==
    /\ pc = "DecodeM1"
    /\ blocks' = DecodeM1(state, blocks)
    /\ decodeResult' = <<0>>
    /\ pc' = "done"
    /\ UNCHANGED <<params, originals, recoveryBlocks, encodeResult, blocksIn, state,
                   matrix, pivots, column>>

\* Decoder::Decode up to the Gaussian elimination loop.
DecodeSetup ==
    /\ pc = "Decode"
    /\ blocks' = EliminateOriginals(state, blocks, 0)
    /\ matrix' = FillMatrix(state, blocks')
    /\ pivots' = InitPivots(state)
    /\ column' = 0
    /\ pc' = "Gauss"
    /\ UNCHANGED <<params, originals, recoveryBlocks, encodeResult, blocksIn,
                   decodeResult, state>>

\* One iteration of the Gaussian elimination loop.
DecodeGauss ==
    /\ pc = "Gauss"
    /\ column < state.RecoveryCount
    /\ LET g == GaussColumn(state, matrix, blocks, pivots, column)
       IN  /\ matrix' = g.matrix
           /\ blocks' = g.blocks
           /\ pivots' = g.pivots
    /\ column' = column + 1
    /\ UNCHANGED <<pc, params, originals, recoveryBlocks, encodeResult, blocksIn,
                   decodeResult, state>>

\* Back-substitution, the end of Decoder::Decode, and return 0.
DecodeBackSubstitute ==
    /\ pc = "Gauss"
    /\ column >= state.RecoveryCount
    /\ blocks' = BackSubstitute(state, matrix, blocks, pivots, state.RecoveryCount - 2)
    /\ decodeResult' = <<0>>
    /\ pc' = "done"
    /\ UNCHANGED <<params, originals, recoveryBlocks, encodeResult, blocksIn, state,
                   matrix, pivots, column>>

Next ==
    \/ cm256_encode
    \/ Transmit
    \/ cm256_decode
    \/ RunDecodeM1
    \/ DecodeSetup
    \/ DecodeGauss
    \/ DecodeBackSubstitute

Spec == Init /\ [][Next]_vars


(***************************************************************************)
(* Properties.                                                             *)
(***************************************************************************)

\* k and m of the specification.
k == params.OriginalCount
m == params.RecoveryCount

\* The Decoder has been set up by Initialize.
DecoderReady == "Params" \in DOMAIN state

\* cm256_decode has returned 0 on blocks made from a successful cm256_encode.
Decoded == pc = "done" /\ encodeResult = <<0>> /\ decodeResult = <<0>>

\* The original rows no input block carries.
ErasedRows == (0..(k - 1)) \ {blocksIn[p].Index : p \in DOMAIN blocksIn}

\* The positions of the input blocks that are recovery blocks.
RecoveryPositions == {p \in DOMAIN blocksIn : blocksIn[p].Index >= k}

\* C1: encode-decode round trip.  Once cm256_decode is done with k blocks
\* made from the k originals and the m encoded recovery blocks (any erased
\* rows, any recovery blocks in their place), it has returned 0, every
\* block's buffer is the original data of the row its final Index names, and
\* the final indices cover 0..k-1.
RoundTrip ==
    (pc = "done" /\ encodeResult = <<0>>) =>
        /\ decodeResult = <<0>>
        /\ \A p \in DOMAIN blocks :
              /\ blocks[p].Index \in 0..(k - 1)
              /\ blocks[p].Block = originals[blocks[p].Index]
        /\ {blocks[p].Index : p \in DOMAIN blocks} = 0..(k - 1)

\* Two rows erased, replaced by two recovery blocks, and rebuilt by
\* Decoder::Decode with at least one buffer rewritten.
RoundTripWitness ==
    /\ Decoded
    /\ m >= 2
    /\ Cardinality(RecoveryPositions) = 2
    /\ \E p \in RecoveryPositions : blocks[p].Block # blocksIn[p].Block

\* The value the calls must return for params, as the claim states it.
Mandated(p, nullPointer) ==
    IF NonPositive(p) THEN <<0 - 1>>
    ELSE IF p.OriginalCount > FieldSize - p.RecoveryCount THEN <<0 - 2>>
    ELSE IF nullPointer THEN <<0 - 3>>
    ELSE <<0>>

\* C2: parameter rejection.  cm256_encode and cm256_decode return -1 when
\* a parameter is not positive, -2 when all are positive and k + m > 256;
\* cm256_encode returns -3 for a null pointer with valid parameters; every
\* other call returns 0.
ParameterRejection ==
    /\ pc # "start" =>
          encodeResult = Mandated(params, originals = <<>> \/ recoveryBlocks = <<>>)
    /\ (pc \in {"done", Fault} /\ blocksIn # <<>>) =>
          decodeResult = Mandated(params, FALSE)

\* The output region holds what it held before the call.
RegionUntouched ==
    \A i \in DOMAIN recoveryBlocks : \A b \in DOMAIN recoveryBlocks[i] :
        recoveryBlocks[i][b] = Indeterminate

\* C3: no partial work on error.  When cm256_encode has returned a negative
\* value the output region is unwritten; when cm256_decode has returned a
\* negative value no block's buffer or Index has changed.
NoPartialWork ==
    /\ (encodeResult # <<>> /\ encodeResult[1] < 0) => RegionUntouched
    /\ (decodeResult # <<>> /\ decodeResult[1] < 0) => blocks = blocksIn

\* Both calls have rejected parameters with k = 1 and a non-null region.
NoPartialWorkWitness ==
    /\ pc = "done"
    /\ encodeResult = <<0 - 2>>
    /\ decodeResult = <<0 - 2>>
    /\ k = 1
    /\ recoveryBlocks # <<>>

\* C4: index labels after a successful cm256_decode.  Every block ends with
\* Index in [0, k); a block that came in as an original keeps its Index; a
\* block that came in as a recovery ends with an erased row, and every
\* erased row is the Index of exactly one such block.
IndexLabels ==
    Decoded =>
        /\ \A p \in DOMAIN blocks :
              /\ blocks[p].Index \in 0..(k - 1)
              /\ blocksIn[p].Index < k => blocks[p].Index = blocksIn[p].Index
              /\ blocksIn[p].Index >= k => blocks[p].Index \in ErasedRows
        /\ \A row \in ErasedRows :
              Cardinality({p \in RecoveryPositions : blocks[p].Index = row}) = 1
        /\ {blocks[p].Index : p \in DOMAIN blocks} = 0..(k - 1)

\* Decoded with two recovery blocks in the input and an original between or
\* beside them.
IndexLabelsWitness ==
    /\ Decoded
    /\ Cardinality(RecoveryPositions) = 2
    /\ Cardinality(ErasedRows) = 2
    /\ k >= 3

\* a_{i,j} as the specification writes it.
CauchyCoefficient(i, j) == gf256_div(Xor(j, k), Xor(k + i, j))

\* Byte b of the sum over columns 0..j of a_{i,j} * original_j.
RECURSIVE CauchySum(_, _, _)
CauchySum(i, j, b) ==
    LET term == gf256_mul(CauchyCoefficient(i, j), originals[j][b])
    IN  IF j = 0 THEN term ELSE Xor(CauchySum(i, j - 1, b), term)

RowIsCauchySum(i) ==
    \A b \in 1..params.BlockBytes : recoveryBlocks[i][b] = CauchySum(i, k - 1, b)

\* C5 as stated: for every k >= 1, after a successful cm256_encode the
\* recovery block of every row i equals the sum of a_{i,j} * original_j.
EncoderFormulaAllK ==
    encodeResult = <<0>> => \A i \in 0..(m - 1) : RowIsCauchySum(i)

\* C5 amended: the formula holds for every row when k >= 2 and for row 0
\* when k = 1; for k = 1 every recovery block is a copy of original 0.
EncoderFormula ==
    encodeResult = <<0>> =>
        /\ k >= 2 => \A i \in 0..(m - 1) : RowIsCauchySum(i)
        /\ k = 1 => /\ RowIsCauchySum(0)
                    /\ \A i \in 0..(m - 1) : recoveryBlocks[i] = originals[0]

\* Encoded with three originals and a second recovery row.
EncoderFormulaWitness ==
    /\ encodeResult = <<0>>
    /\ k = 3
    /\ m >= 2
    /\ recoveryBlocks[1] # recoveryBlocks[0]

\* C6: decode with no erasures is a no-op.  When the input blocks are the k
\* originals, in any array order, cm256_decode returns 0 and leaves every
\* buffer and every Index as it was.
NoErasureNoOp ==
    (pc = "done" /\ encodeResult = <<0>> /\ RecoveryPositions = {}) =>
        /\ decodeResult = <<0>>
        /\ blocks = blocksIn

\* Three originals passed in an order that is not the row order.
NoErasureNoOpWitness ==
    /\ Decoded
    /\ RecoveryPositions = {}
    /\ k = 3
    /\ blocksIn[0].Index = 2
    /\ blocksIn[1].Index = 0

\* C7: surviving originals are untouched.  From the call of cm256_decode to
\* its return, with at least one erasure, every block that came in with
\* Index < k has the buffer and the Index it came in with.
OriginalsUntouched ==
    (encodeResult = <<0>> /\ blocksIn # <<>> /\ RecoveryPositions # {} /\ pc # Fault) =>
        \A p \in DOMAIN blocksIn :
            blocksIn[p].Index < k => blocks[p] = blocksIn[p]

\* Decoder::Decode has rebuilt a row next to a surviving original.
OriginalsUntouchedWitness ==
    /\ Decoded
    /\ m >= 2
    /\ RecoveryPositions # {}
    /\ RecoveryPositions # DOMAIN blocksIn
    /\ \E p \in RecoveryPositions : blocks[p] # blocksIn[p]

\* C8: Decoder setup postcondition.  After Initialize OriginalCount +
\* RecoveryCount = k and the first RecoveryCount entries of ErasuresIndices
\* are strictly increasing and are exactly the rows no input block carries.
SetupPostcondition ==
    (DecoderReady /\ encodeResult = <<0>>) =>
        /\ state.OriginalCount + state.RecoveryCount = k
        /\ state.RecoveryCount = Cardinality(RecoveryPositions)
        /\ \A a, b \in 0..(state.RecoveryCount - 1) :
              a < b => state.ErasuresIndices[a] < state.ErasuresIndices[b]
        /\ {state.ErasuresIndices[a] : a \in 0..(state.RecoveryCount - 1)} = ErasedRows

\* Rows 0 and 2 are erased: the erasure list is written over presence
\* entries the scan has read.
SetupPostconditionWitness ==
    /\ DecoderReady
    /\ encodeResult = <<0>>
    /\ ErasedRows = {0, 2}
    /\ state.RecoveryCount = 2

\* C9: a pivot always exists.  Before each column j of the Gaussian
\* elimination, one of the rows pivots[j..n-1] has a non-zero entry in
\* column j.
PivotExists ==
    (pc = "Gauss" /\ column < state.RecoveryCount) =>
        PivotCandidates(state, matrix, pivots, column) # {}

\* The second column of a 2 x 2 elimination is about to be searched.
PivotExistsWitness ==
    /\ pc = "Gauss"
    /\ column = 1
    /\ state.RecoveryCount = 2

\* C10: the erasure scan is confined to 0..k-1.  For k >= 2, after
\* Initialize on k blocks with distinct indices (inputs without a recovery
\* block included), the scan has read no entry of ErasuresIndices at a
\* position >= k.
ScanConfined ==
    (DecoderReady /\ encodeResult = <<0>> /\ k >= 2) => state.scanEnd <= k

====
